---- MODULE Spec2Model ----
(***************************************************************************)
(* Model of .build/helpers.mjs: the sprite/preview builder                 *)
(* (generateIconsPreview, createScreenshot, createSvgSymbol), the compile  *)
(* options reader (getCompileOptions), the alias reader (readAliases,      *)
(* readSvgs), asyncForEach, printChangelog and toCamelCase / toPascalCase. *)
(* JavaScript strings are TLA+ strings; they are taken apart with SubSeq   *)
(* and Len and put together with \o.                                       *)
(***************************************************************************)
EXTENDS Integers, Sequences, FiniteSets, TLC

VARIABLES
    \* generateIconsPreview / createScreenshot
    files, destFile, columnsCount, paddingOuter, png, retina,
    width, height, svgContentSymbols, svgContentIcons, x, y, i,
    disk, execLog, pc,
    \* getCompileOptions: the options file, the module environment, the outcome
    optionsFile, requireDefined, compileResult,
    \* readSvgs / readAliases: the icons directory, ICONS_LIMIT, aliases.json
    dirListing, iconsLimit, svgsParse, allAliases, aliasResult,
    \* asyncForEach: the callbacks' behaviour, the loop index, the trace
    array, index, inFlight, started, asyncPc,
    \* printChangelog: the arguments and what console.log printed
    newIcons, modifiedIcons, renamedIcons, pretty, stdout,
    \* toPascalCase: the argument and the value returned
    string, pascal

previewVars == <<files, destFile, columnsCount, paddingOuter, png, retina,
                 width, height, svgContentSymbols, svgContentIcons, x, y, i,
                 disk, execLog, pc>>

optionsVars == <<optionsFile, requireDefined, compileResult>>

aliasVars == <<dirListing, iconsLimit, svgsParse, allAliases, aliasResult>>

asyncVars == <<array, index, inFlight, started, asyncPc>>

changelogVars == <<newIcons, modifiedIcons, renamedIcons, pretty, stdout>>

caseVars == <<string, pascal>>

vars == <<previewVars, optionsVars, aliasVars, asyncVars, changelogVars, caseVars>>

(***************************************************************************)
(* Bounds of the model.                                                    *)
(***************************************************************************)
MaxFiles == 4
MaxColumns == 3
MaxIcons == 2
MaxDir == 3
MaxLimit == 2
MaxAliases == 2
MaxArray == 3
MaxNames == 2
MaxRenamed == 2
MaxLen == 4

(***************************************************************************)
(* String helpers (String.prototype.charAt / indexOf / replace / endsWith) *)
(***************************************************************************)
CharAt(s, k) == IF k >= 1 /\ k <= Len(s) THEN SubSeq(s, k, k) ELSE ""

Slice(s, from, to) == IF from > to THEN "" ELSE SubSeq(s, from, to)

\* 1-based position of the first occurrence of t in s, 0 when there is none
IndexOf(s, t) ==
    LET hits == {k \in 1..(Len(s) - Len(t) + 1) : SubSeq(s, k, k + Len(t) - 1) = t}
    IN  IF hits = {} THEN 0 ELSE CHOOSE k \in hits : \A m \in hits : k <= m

\* s.replace(t, r) with a string pattern: the first occurrence only
ReplaceFirst(s, t, r) ==
    LET k == IndexOf(s, t)
    IN  IF k = 0 THEN s
        ELSE Slice(s, 1, k - 1) \o r \o Slice(s, k + Len(t), Len(s))

EndsWith(s, t) ==
    Len(s) >= Len(t) /\ Slice(s, Len(s) - Len(t) + 1, Len(s)) = t

HasChar(s, c) == \E k \in 1..Len(s) : SubSeq(s, k, k) = c

(***************************************************************************)
(* generateIconsPreview: constants and canvas geometry                     *)
(***************************************************************************)
padding == 20
iconSize == 24

\* Math.ceil(iconsCount / columnsCount) on non-negative integers
rowsCount(n, c) == IF n % c = 0 THEN n \div c ELSE (n \div c) + 1

CanvasWidth(c, p) == c * (iconSize + padding) + 2 * p - padding

CanvasHeightMut(n, c, p) == rowsCount(n, c) * (iconSize + padding) + 2 * p

CanvasHeight(n, c, p) == rowsCount(n, c) * (iconSize + padding) + 2 * p - padding

\* The symbol name: file.replace(re, '$2-$3'), where re is anchored at both
\* ends and reads: a greedy any-run $1, "/", a non-empty run $2 without "/",
\* "/", a non-empty run $3 without ".", any one character, "svg".
\* $1 is greedy, so the first "/" is the rightmost one that admits a match,
\* and $2 then runs to the next "/".  Without a match the path is unchanged.
NextSlash(s, j) ==
    LET later == {k \in (j + 1)..Len(s) : SubSeq(s, k, k) = "/"}
    IN  IF later = {} THEN 0 ELSE CHOOSE k \in later : \A m \in later : k <= m

NameMatchAt(s, j) ==
    LET k == NextSlash(s, j)
    IN  /\ SubSeq(s, j, j) = "/"
        /\ k > j + 1
        /\ Len(s) - 4 >= k + 1
        /\ ~HasChar(Slice(s, k + 1, Len(s) - 4), ".")
        /\ EndsWith(s, "svg")

SymbolName(file) ==
    LET starts == {j \in 1..Len(file) : NameMatchAt(file, j)}
    IN  IF starts = {} THEN file
        ELSE LET j == CHOOSE a \in starts : \A b \in starts : a >= b
                 k == NextSlash(file, j)
             IN  Slice(file, j + 1, k - 1) \o "-" \o Slice(file, k + 1, Len(file) - 4)

\* createSvgSymbol: the source <svg> becomes <symbol id="name">
createSvgSymbol(svg, name, stroke) == [id |-> name, body |-> svg, strokeWidth |-> stroke]

\* fs.readFileSync(file): every icon file holds its own drawing
ReadIconFile(file) == "<svg " \o file \o ">"

\* the wrap test of the forEach loop (i is the 0-based index)
WrapMut(idx, c) == idx % c = 0
Wrap(idx, c) == idx % c = c - 1

(***************************************************************************)
(* Inputs                                                                  *)
(***************************************************************************)
Paths == {"i/a-b/c.svg", "i/a/b-c.svg", "a/c.svg"}

SeqsUpTo(S, n) == UNION {[1..m -> S] : m \in 0..n}

PaddingOuters == {0, 7, 10, 11}

DestFiles == {"out/icons.svg", "out/icons"}

\* the file system: a function from the paths that exist to what they hold
Empty == [kind |-> "empty"]

NoFiles == [p \in {} |-> Empty]

WriteFile(d, path, content) ==
    [p \in (DOMAIN d) \cup {path} |-> IF p = path THEN content ELSE d[p]]

SvgContent(w, h, symbols, icons) ==
    [kind |-> "svg", width |-> w, height |-> h, symbols |-> symbols, icons |-> icons]

\* the parts of the module a specification does not exercise stay as they are
NotCalled == [kind |-> "none"]

OptionsIdle ==
    /\ optionsFile = [exists |-> FALSE]
    /\ requireDefined = FALSE
    /\ compileResult = NotCalled

\* console output: whether the printing call was made, and its lines
NothingPrinted == [called |-> FALSE, lines |-> <<>>]

AliasIdle ==
    /\ dirListing = <<>>
    /\ iconsLimit = 0
    /\ svgsParse = TRUE
    /\ allAliases = <<>>
    /\ aliasResult = NotCalled

AsyncIdle ==
    /\ array = <<>>
    /\ index = 0
    /\ inFlight = {}
    /\ started = <<>>
    /\ asyncPc = "idle"

ChangelogIdle ==
    /\ newIcons = <<>>
    /\ modifiedIcons = <<>>
    /\ renamedIcons = <<>>
    /\ pretty = FALSE
    /\ stdout = NothingPrinted

CaseIdle ==
    /\ string = ""
    /\ pascal = NotCalled

InitPreview ==
    /\ files \in SeqsUpTo(Paths, MaxFiles)
    /\ destFile \in DestFiles
    /\ columnsCount \in 1..MaxColumns
    /\ paddingOuter \in PaddingOuters
    /\ png \in BOOLEAN
    /\ retina \in BOOLEAN
    /\ width = CanvasWidth(columnsCount, paddingOuter)
    /\ height = CanvasHeight(Len(files), columnsCount, paddingOuter)
    /\ svgContentSymbols = <<>>
    /\ svgContentIcons = <<>>
    /\ x = paddingOuter
    /\ y = paddingOuter
    /\ i = 0
    /\ disk = NoFiles
    /\ execLog = <<>>
    /\ pc = "forEach"
    /\ OptionsIdle /\ AliasIdle /\ AsyncIdle /\ ChangelogIdle /\ CaseIdle

otherThanPreview == <<optionsVars, aliasVars, asyncVars, changelogVars, caseVars>>

\* one iteration of files.forEach
ForEachFile ==
    /\ pc = "forEach"
    /\ i < Len(files)
    /\ LET file == files[i + 1]
           name == SymbolName(file)
       IN  /\ svgContentSymbols' =
                  Append(svgContentSymbols, createSvgSymbol(ReadIconFile(file), name, 2))
           /\ svgContentIcons' =
                  Append(svgContentIcons,
                         [href |-> name, x |-> x, y |-> y,
                          width |-> iconSize, height |-> iconSize])
           /\ IF Wrap(i, columnsCount)
              THEN x' = paddingOuter /\ y' = y + padding + iconSize
              ELSE x' = x + padding + iconSize /\ y' = y
    /\ i' = i + 1
    /\ UNCHANGED <<files, destFile, columnsCount, paddingOuter, png, retina,
                   width, height, disk, execLog, pc>>
    /\ UNCHANGED otherThanPreview

svgContent == SvgContent(width, height, svgContentSymbols, svgContentIcons)

\* fs.writeFileSync(destFile, svgContent), then createScreenshot when png
WriteSvg ==
    /\ pc = "forEach"
    /\ i = Len(files)
    /\ disk' = WriteFile(disk, destFile, svgContent)
    /\ pc' = IF png THEN "convert2x" ELSE "done"
    /\ UNCHANGED <<files, destFile, columnsCount, paddingOuter, png, retina,
                   width, height, svgContentSymbols, svgContentIcons, x, y, i, execLog>>
    /\ UNCHANGED otherThanPreview

\* fs.writeFileSync throws: the promise rejects before createScreenshot
WriteSvgFails ==
    /\ pc = "forEach"
    /\ i = Len(files)
    /\ pc' = "failed"
    /\ UNCHANGED <<files, destFile, columnsCount, paddingOuter, png, retina,
                   width, height, svgContentSymbols, svgContentIcons, x, y, i,
                   disk, execLog>>
    /\ UNCHANGED otherThanPreview

\* the file the shell redirects the converter's output to
PngPath(filePath, suffix) == ReplaceFirst(filePath, ".svg", suffix)

\* cp.execSync(`rsvg-convert -x s -y s filePath > target`): the shell opens
\* the target truncated, then the converter reads filePath.  It can exit 0
\* only when it reads an SVG document.
Redirected(d, target) == WriteFile(d, target, Empty)

ExecConvert(scale, suffix, next) ==
    LET target == PngPath(destFile, suffix)
        opened == Redirected(disk, target)
    IN  /\ opened[destFile].kind = "svg"
        /\ disk' = WriteFile(opened, target,
                             [kind |-> "png", scale |-> scale, of |-> opened[destFile]])
        /\ execLog' = Append(execLog, [scale |-> scale, output |-> target, ok |-> TRUE])
        /\ pc' = next

\* the command exits non-zero (or the shell cannot open the target): execSync throws
ExecConvertFails(scale, suffix) ==
    LET target == PngPath(destFile, suffix)
    IN  /\ disk' \in {Redirected(disk, target), disk}
        /\ execLog' = Append(execLog, [scale |-> scale, output |-> target, ok |-> FALSE])
        /\ pc' = "failed"

Convert2x ==
    /\ pc = "convert2x"
    /\ ExecConvert(2, ".png", IF retina THEN "convert4x" ELSE "done")
    /\ UNCHANGED <<files, destFile, columnsCount, paddingOuter, png, retina,
                   width, height, svgContentSymbols, svgContentIcons, x, y, i>>
    /\ UNCHANGED otherThanPreview

Convert2xFails ==
    /\ pc = "convert2x"
    /\ ExecConvertFails(2, ".png")
    /\ UNCHANGED <<files, destFile, columnsCount, paddingOuter, png, retina,
                   width, height, svgContentSymbols, svgContentIcons, x, y, i>>
    /\ UNCHANGED otherThanPreview

Convert4x ==
    /\ pc = "convert4x"
    /\ ExecConvert(4, "@2x.png", "done")
    /\ UNCHANGED <<files, destFile, columnsCount, paddingOuter, png, retina,
                   width, height, svgContentSymbols, svgContentIcons, x, y, i>>
    /\ UNCHANGED otherThanPreview

Convert4xFails ==
    /\ pc = "convert4x"
    /\ ExecConvertFails(4, "@2x.png")
    /\ UNCHANGED <<files, destFile, columnsCount, paddingOuter, png, retina,
                   width, height, svgContentSymbols, svgContentIcons, x, y, i>>
    /\ UNCHANGED otherThanPreview

NextPreview ==
    \/ ForEachFile
    \/ WriteSvg
    \/ WriteSvgFails
    \/ Convert2x
    \/ Convert2xFails
    \/ Convert4x
    \/ Convert4xFails

SpecPreview == InitPreview /\ [][NextPreview]_vars

(***************************************************************************)
(* Claims about generateIconsPreview                                       *)
(***************************************************************************)

\* C1: the cursor (x, y) of the forEach loop is, before every placement,
\* x = paddingOuter + (i mod c) * 44 and y = paddingOuter + floor(i / c) * 44,
\* and the k-th file (0-based) got its <use> reference at that position.
C1_CursorClosedForm ==
    /\ Len(svgContentIcons) = i
    /\ x = paddingOuter + (i % columnsCount) * 44
    /\ y = paddingOuter + (i \div columnsCount) * 44
    /\ \A k \in 1..Len(svgContentIcons) :
          /\ svgContentIcons[k].x = paddingOuter + ((k - 1) % columnsCount) * 44
          /\ svgContentIcons[k].y = paddingOuter + ((k - 1) \div columnsCount) * 44

\* with 2 columns the 3rd icon opens the second row
C1_Witness ==
    /\ columnsCount = 2
    /\ Len(svgContentIcons) = 3
    /\ svgContentIcons[2].x = paddingOuter + 44
    /\ svgContentIcons[3].x = paddingOuter
    /\ svgContentIcons[3].y = paddingOuter + 44

\* the last path segment without its ".svg" suffix, and the segment before it
LastSlash(s) ==
    LET sl == {k \in 1..Len(s) : SubSeq(s, k, k) = "/"}
    IN  IF sl = {} THEN 0 ELSE CHOOSE k \in sl : \A m \in sl : k >= m

FileBaseName(s) ==
    LET seg == Slice(s, LastSlash(s) + 1, Len(s))
    IN  IF EndsWith(seg, ".svg") THEN Slice(seg, 1, Len(seg) - 4) ELSE seg

ParentDirName(s) ==
    LET dir == Slice(s, 1, LastSlash(s) - 1)
    IN  Slice(dir, LastSlash(dir) + 1, Len(dir))

\* C9: within one sprite, two files that differ in parent directory name or
\* in basename never get the same symbol identifier, so that no <use>
\* reference resolves to another file's symbol.
C9_UniqueSymbolIds ==
    \A k, l \in 1..Len(svgContentSymbols) :
        (\/ ParentDirName(files[k]) # ParentDirName(files[l])
         \/ FileBaseName(files[k]) # FileBaseName(files[l]))
            => /\ svgContentSymbols[k].id # svgContentSymbols[l].id
               /\ svgContentIcons[k].href # svgContentSymbols[l].id

\* the least number of rows of c cells that hold n icons
LeastRows(n, c) == CHOOSE r \in 0..n : r * c >= n /\ \A q \in 0..n : q * c >= n => r <= q

CellsInsideMargins ==
    \A k \in 1..Len(svgContentIcons) :
        /\ svgContentIcons[k].x >= paddingOuter
        /\ svgContentIcons[k].x + 24 <= width - paddingOuter
        /\ svgContentIcons[k].y >= paddingOuter
        /\ svgContentIcons[k].y + 24 <= height - paddingOuter

LastRowTouchesBottomMargin ==
    (i = Len(files) /\ Len(files) >= 1)
        => svgContentIcons[Len(files)].y + 24 = height - paddingOuter

\* C10 as stated: for every n >= 0, c >= 1 and paddingOuter >= 0 the canvas
\* has width > 0 and height > 0, holds every placed 24x24 cell with a margin
\* of at least paddingOuter on all sides, and the last row ends exactly
\* paddingOuter above the bottom edge.
C10_CanvasNonDegenerate ==
    /\ width > 0
    /\ height > 0
    /\ CellsInsideMargins
    /\ LastRowTouchesBottomMargin

\* C10 amended: the width is always positive; the height is
\* 44 * ceil(n / c) + 2 * paddingOuter - 20, which is positive exactly when
\* n >= 1 or paddingOuter > 10; every placed cell keeps the margins and the
\* last row ends exactly paddingOuter above the bottom edge.
C10_CanvasBounds ==
    /\ width = 44 * columnsCount + 2 * paddingOuter - 20
    /\ width > 0
    /\ height = 44 * LeastRows(Len(files), columnsCount) + 2 * paddingOuter - 20
    /\ (height > 0 <=> (Len(files) >= 1 \/ paddingOuter > 10))
    /\ CellsInsideMargins
    /\ LastRowTouchesBottomMargin

\* a grid with a partly filled last row, all icons placed
C10_Witness ==
    /\ Len(files) = 4
    /\ columnsCount = 3
    /\ i = 4
    /\ pc = "done"

\* C6: the SVG is written to destFile before any converter runs; the 2x
\* conversion runs only when png is set, the 4x conversion only after a
\* successful 2x conversion and only when retina is set; a failed
\* conversion is not retried, is followed by no other conversion, and
\* leaves the SVG written to destFile unchanged on disk.
C6_SvgSurvivesRaster ==
    /\ execLog # <<>> => (png /\ execLog[1].scale = 2 /\ Len(execLog) <= 2)
    /\ \A k \in 1..Len(execLog) :
          /\ execLog[k].scale = 4 => (retina /\ k = 2 /\ execLog[1].ok)
          /\ k < Len(execLog) => execLog[k].ok
    /\ pc \in {"convert2x", "convert4x"} => disk[destFile] = svgContent
    /\ (pc = "failed" /\ execLog # <<>>) =>
          (destFile \in DOMAIN disk /\ disk[destFile] = svgContent)

(***************************************************************************)
(* getCompileOptions                                                       *)
(* A JSON value is a record with its kind in field t: "null", "boolean",   *)
(* "number", "string", "array" or "object"; Undefined stands for a         *)
(* property that is not there.                                             *)
(***************************************************************************)
Undefined == [t |-> "undefined"]
JsNull == [t |-> "null"]
JsBool(b) == [t |-> "boolean", v |-> b]
JsNum(n) == [t |-> "number", v |-> n]
JsStr(str) == [t |-> "string", v |-> str]
JsArr(elems) == [t |-> "array", v |-> elems]

\* the typeof operator
TypeOf(val) ==
    IF val.t \in {"null", "array", "object"} THEN "object" ELSE val.t

IsArray(val) == val.t = "array"

\* ToBoolean
Truthy(val) ==
    CASE val.t = "undefined" -> FALSE
      [] val.t = "null" -> FALSE
      [] val.t = "boolean" -> val.v
      [] val.t = "number" -> val.v # 0
      [] val.t = "string" -> val.v # ""
      [] OTHER -> TRUE

LowerLetters == "abcdefghijklmnopqrstuvwxyz"
UpperLetters == "ABCDEFGHIJKLMNOPQRSTUVWXYZ"

\* String.prototype.toUpperCase / toLowerCase on one character
ToUpperChar(c) ==
    LET k == IndexOf(LowerLetters, c)
    IN  IF c = "" \/ k = 0 THEN c ELSE SubSeq(UpperLetters, k, k)

ToLowerChar(c) ==
    LET k == IndexOf(UpperLetters, c)
    IN  IF c = "" \/ k = 0 THEN c ELSE SubSeq(LowerLetters, k, k)

\* str.split(' ')
RECURSIVE SplitOnSpace(_)
SplitOnSpace(str) ==
    LET k == IndexOf(str, " ")
    IN  IF k = 0 THEN <<str>>
        ELSE <<Slice(str, 1, k - 1)>> \o SplitOnSpace(Slice(str, k + 1, Len(str)))

\* Number.prototype.toString for the one-digit numbers of the model
DigitToString(n) == SubSeq("0123456789", n + 1, n + 1)

\* array.indexOf(e) === -1
NotIn(elems, e) == \A k \in 1..Len(elems) : elems[k] # e


\* Object.entries(require('./tags.json')): icon and category, in file order
tags ==
    << [icon |-> "home", category |-> "Buildings"],
       [icon |-> "eye-off", category |-> "System"],
       [icon |-> "eye-offs", category |-> "System"] >>

\* the inner loop of includeCategories: push the icons of one category
RECURSIVE PushCategory(_, _, _)
PushCategory(includeIcons, category, k) ==
    IF k > Len(tags) THEN includeIcons
    ELSE PushCategory(
             IF tags[k].category = category /\ NotIn(includeIcons, tags[k].icon)
             THEN Append(includeIcons, tags[k].icon) ELSE includeIcons,
             category, k + 1)

\* category.charAt(0).toUpperCase() + category.slice(1)
Capitalize(str) == ToUpperChar(CharAt(str, 1)) \o Slice(str, 2, Len(str))

RECURSIVE PushCategories(_, _)
PushCategories(includeIcons, categories) ==
    IF categories = <<>> THEN includeIcons
    ELSE PushCategories(PushCategory(includeIcons, Capitalize(Head(categories)), 1),
                        Tail(categories))

\* the local compileOptions object, and the error thrown inside the try block
\* ("" while nothing has been thrown)
DefaultOptions ==
    [includeIcons |-> <<>>, strokeWidth |-> JsNull, fontForge |-> "fontforge"]

Running(opts) == [err |-> "", opts |-> opts]
Thrown(st, msg) == [err |-> msg, opts |-> st.opts]

\* lines 341-346
StageIncludeIcons(t, st) ==
    IF st.err # "" \/ t.includeIcons.t = "undefined" THEN st
    ELSE IF ~IsArray(t.includeIcons)
         THEN Thrown(st, "property inludeIcons is not an array")
         ELSE Running([st.opts EXCEPT !.includeIcons = t.includeIcons.v])

\* lines 348-364; require is not defined in an ES module unless the
\* environment provides it
StageIncludeCategories(t, req, st) ==
    IF st.err # "" \/ t.includeCategories.t = "undefined" THEN st
    ELSE LET cats == IF t.includeCategories.t = "string"
                     THEN JsArr(SplitOnSpace(t.includeCategories.v))
                     ELSE t.includeCategories
         IN  IF ~IsArray(cats)
             THEN Thrown(st, "property includeCategories is not an array or string")
             ELSE IF ~req
                  THEN Thrown(st, "ReferenceError: require is not defined")
                  ELSE Running([st.opts EXCEPT
                           !.includeIcons = PushCategories(st.opts.includeIcons, cats.v)])

\* lines 366-373
StageExcludeIcons(t, st) ==
    IF st.err # "" \/ t.excludeIcons.t = "undefined" THEN st
    ELSE IF ~IsArray(t.excludeIcons)
         THEN Thrown(st, "property excludeIcons is not an array")
         ELSE LET keep(icon) == NotIn(t.excludeIcons.v, icon)
              IN  Running([st.opts EXCEPT
                      !.includeIcons = SelectSeq(st.opts.includeIcons, keep)])

\* lines 375-380
NotOffIconMut(icon) == ~EndsWith(icon, "off")
NotOffIcon(icon) == ~EndsWith(icon, "-off")

StageExcludeOffIcons(t, st) ==
    IF st.err # "" \/ t.excludeOffIcons.t = "undefined" \/ ~Truthy(t.excludeOffIcons)
    THEN st
    ELSE Running([st.opts EXCEPT
             !.includeIcons = SelectSeq(st.opts.includeIcons, NotOffIcon)])

\* lines 382-387
StageStrokeWidth(t, st) ==
    IF st.err # "" \/ t.strokeWidth.t = "undefined" THEN st
    ELSE IF TypeOf(t.strokeWidth) # "string" /\ TypeOf(t.strokeWidth) # "number"
         THEN Thrown(st, "property strokeWidth is not a string or number")
         ELSE Running([st.opts EXCEPT !.strokeWidth =
                  JsStr(IF t.strokeWidth.t = "number"
                        THEN DigitToString(t.strokeWidth.v) ELSE t.strokeWidth.v)])

\* lines 389-394
StageFontForgeMut(t, st) ==
    IF st.err # "" \/ t.fontForge.t = "undefined" THEN st
    ELSE Running([st.opts EXCEPT !.fontForge = t.fontForge.v])

StageFontForge(t, st) ==
    IF st.err # "" \/ t.fontForge.t = "undefined" THEN st
    ELSE IF TypeOf(t.fontForge) # "string"
         THEN Thrown(st, "property fontForge is not a string")
         ELSE Running([st.opts EXCEPT !.fontForge = t.fontForge.v])

\* a JSON array, number, string or boolean has none of the six properties
NoProperties ==
    [includeIcons |-> Undefined, includeCategories |-> Undefined,
     excludeIcons |-> Undefined, excludeOffIcons |-> Undefined,
     strokeWidth |-> Undefined, fontForge |-> Undefined]

PropertiesOf(tempOptions) ==
    IF tempOptions.t = "object" THEN tempOptions.props ELSE NoProperties

\* the try block, lines 335-394
TryBlock(file, req) ==
    IF file.malformed
    THEN Thrown(Running(DefaultOptions), "SyntaxError: Unexpected end of JSON input")
    ELSE IF TypeOf(file.json) # "object"
    THEN Thrown(Running(DefaultOptions),
                "Compile options file does not contain an json object")
    ELSE IF file.json.t = "null"
    THEN Thrown(Running(DefaultOptions),
                "TypeError: Cannot read properties of null (reading 'includeIcons')")
    ELSE LET t == PropertiesOf(file.json)
         IN  StageFontForge(t,
             StageStrokeWidth(t,
             StageExcludeOffIcons(t,
             StageExcludeIcons(t,
             StageIncludeCategories(t, req,
             StageIncludeIcons(t, Running(DefaultOptions)))))))

\* the catch block, lines 396-398
Catch(error) ==
    [kind |-> "throw", message |-> "Error reading compile-options.json: " \o error]

getCompileOptions(file, req) ==
    IF ~file.exists THEN [kind |-> "return", options |-> DefaultOptions]
    ELSE LET st == TryBlock(file, req)
         IN  IF st.err # "" THEN Catch(st.err)
             ELSE [kind |-> "return", options |-> st.opts]

IconNames == {"home", "eye-off", "off", "eye-offs"}

IncludeIconsValues ==
    {Undefined, JsNull, JsStr("home")}
        \cup {JsArr(elems) : elems \in SeqsUpTo(IconNames, MaxIcons)}

IncludeCategoriesValues ==
    {Undefined, JsStr("system"), JsStr("buildings system"),
     JsArr(<<"buildings">>), JsNum(1)}

ExcludeIconsValues ==
    {Undefined, JsArr(<<"home">>), JsArr(<<"eye-off", "off">>), JsStr("home")}

ExcludeOffIconsValues == {Undefined, JsBool(TRUE), JsBool(FALSE), JsNum(1)}

StrokeWidthValues == {Undefined, JsStr("1.5"), JsNum(2), JsBool(TRUE)}

FontForgeValues == {Undefined, JsStr("/opt/fontforge"), JsNum(1)}

JsonObjects ==
    {[t |-> "object", props |-> props] : props \in
        [includeIcons : IncludeIconsValues,
         includeCategories : IncludeCategoriesValues,
         excludeIcons : ExcludeIconsValues,
         excludeOffIcons : ExcludeOffIconsValues,
         strokeWidth : StrokeWidthValues,
         fontForge : FontForgeValues]}

JsonValues ==
    JsonObjects \cup {JsNull, JsArr(<<>>), JsArr(<<"home">>), JsNum(1),
                      JsStr("home"), JsBool(TRUE)}

OptionsFiles ==
    {[exists |-> FALSE]}
        \cup {[exists |-> TRUE, malformed |-> TRUE]}
        \cup {[exists |-> TRUE, malformed |-> FALSE, json |-> j] : j \in JsonValues}

PreviewIdle ==
    /\ files = <<>>
    /\ destFile = ""
    /\ columnsCount = 1
    /\ paddingOuter = 0
    /\ png = FALSE
    /\ retina = FALSE
    /\ width = 0
    /\ height = 0
    /\ svgContentSymbols = <<>>
    /\ svgContentIcons = <<>>
    /\ x = 0
    /\ y = 0
    /\ i = 0
    /\ disk = NoFiles
    /\ execLog = <<>>
    /\ pc = "idle"

InitOptions ==
    /\ optionsFile \in OptionsFiles
    /\ requireDefined \in BOOLEAN
    /\ compileResult = NotCalled
    /\ PreviewIdle /\ AliasIdle /\ AsyncIdle /\ ChangelogIdle /\ CaseIdle

otherThanOptions == <<previewVars, aliasVars, asyncVars, changelogVars, caseVars>>

\* a call of getCompileOptions()
GetCompileOptions ==
    /\ compileResult = NotCalled
    /\ compileResult' = getCompileOptions(optionsFile, requireDefined)
    /\ UNCHANGED <<optionsFile, requireDefined>>
    /\ UNCHANGED otherThanOptions

NextOptions == GetCompileOptions

SpecOptions == InitOptions /\ [][NextOptions]_vars

(***************************************************************************)
(* Claims about getCompileOptions                                          *)
(***************************************************************************)
OptionsObjectRead ==
    /\ optionsFile.exists
    /\ ~optionsFile.malformed
    /\ optionsFile.json.t = "object"

\* a property that is present and whose JSON kind is not among the allowed
PresentButNot(val, kinds) == val.t # "undefined" /\ val.t \notin kinds

\* a JavaScript object: what JSON.parse gives for a JSON object or array
IsJsObject(val) == val.t \in {"object", "array"}

\* the file is there and is not valid JSON, or its top-level value is not an
\* object, or one of the four checked properties has the wrong kind
OptionsFileIsWrong ==
    /\ optionsFile.exists
    /\ \/ optionsFile.malformed
       \/ ~IsJsObject(optionsFile.json)
       \/ /\ optionsFile.json.t = "object"
          /\ \/ PresentButNot(optionsFile.json.props.includeIcons, {"array"})
             \/ PresentButNot(optionsFile.json.props.excludeIcons, {"array"})
             \/ PresentButNot(optionsFile.json.props.strokeWidth, {"string", "number"})
             \/ PresentButNot(optionsFile.json.props.fontForge, {"string"})

ErrorPrefix == "Error reading compile-options.json:"

EndsInDashOff(name) ==
    Len(name) >= 4 /\ SubSeq(name, Len(name) - 3, Len(name)) = "-off"

NotEndsInDashOff(name) == ~EndsInDashOff(name)

ExcludeOffIsTrue ==
    /\ OptionsObjectRead
    /\ optionsFile.json.props.excludeOffIcons.t = "boolean"
    /\ optionsFile.json.props.excludeOffIcons.v

\* the same file without the excludeOffIcons property
WithoutExcludeOff ==
    [optionsFile EXCEPT !.json.props.excludeOffIcons = Undefined]

\* C3: with excludeOffIcons set to true the returned includeIcons holds no
\* name ending in "-off" and is otherwise, in the same order, the list the
\* same options give without excludeOffIcons.
C3_ExcludeOffIcons ==
    (compileResult # NotCalled /\ ExcludeOffIsTrue /\ compileResult.kind = "return") =>
        LET without == getCompileOptions(WithoutExcludeOff, requireDefined)
        IN  /\ without.kind = "return"
            /\ compileResult.options.includeIcons =
                   SelectSeq(without.options.includeIcons, NotEndsInDashOff)
            /\ \A k \in 1..Len(compileResult.options.includeIcons) :
                   ~EndsInDashOff(compileResult.options.includeIcons[k])
            /\ compileResult.options.strokeWidth = without.options.strokeWidth
            /\ compileResult.options.fontForge = without.options.fontForge

\* "eye-off" is dropped, "off" and "eye-offs" (pushed by a category) stay
C3_Witness ==
    /\ compileResult # NotCalled
    /\ ExcludeOffIsTrue
    /\ compileResult.kind = "return"
    /\ optionsFile.json.props.includeIcons.t = "array"
    /\ optionsFile.json.props.includeIcons.v = <<"eye-off", "off">>
    /\ optionsFile.json.props.includeCategories.t = "string"
    /\ compileResult.options.includeIcons = <<"off", "eye-offs">>

(***************************************************************************)
(* readSvgDirectory, readSvgs, readAliases                                 *)
(***************************************************************************)
LastDot(str) ==
    LET dots == {k \in 1..Len(str) : SubSeq(str, k, k) = "."}
    IN  IF dots = {} THEN 0 ELSE CHOOSE k \in dots : \A m \in dots : k >= m

\* path.extname of a file name: from the last "." on, "" for a leading dot
ExtName(file) ==
    IF LastDot(file) <= 1 THEN "" ELSE Slice(file, LastDot(file), Len(file))

\* path.basename(file, ext)
BaseName(file, ext) ==
    IF file # ext /\ EndsWith(file, ext)
    THEN Slice(file, 1, Len(file) - Len(ext)) ELSE file

\* fs.readdirSync(directory).filter(file => path.extname(file) === '.svg')
IsSvgFile(file) == ExtName(file) = ".svg"

readSvgDirectory(listing) == SelectSeq(listing, IsSvgFile)

\* process.env['ICONS_LIMIT'] || Infinity
Infinity == [inf |-> TRUE]
Limit(n) == [inf |-> FALSE, n |-> n]

\* array.slice(0, limit)
SliceTo(elems, limit) ==
    IF limit.inf THEN elems
    ELSE LET end == IF limit.n < 0 THEN Len(elems) + limit.n ELSE limit.n
             k == IF end < 0 THEN 0 ELSE IF end > Len(elems) THEN Len(elems) ELSE end
         IN  SubSeq(elems, 1, k)

\* the icons readSvgs returns (name only), or the error parseSync throws
readSvgs(listing, limit, parse) ==
    LET svgFiles == SliceTo(readSvgDirectory(listing), limit)
    IN  IF svgFiles # <<>> /\ ~parse
        THEN [kind |-> "throw", message |-> "ParseError"]
        ELSE [kind |-> "return",
              icons |-> [k \in 1..Len(svgFiles) |->
                            [name |-> BaseName(svgFiles[k], ".svg")]]]

\* array.includes(value)
Includes(elems, value) == \E k \in 1..Len(elems) : elems[k] = value

Digits == "0123456789"

IsDigits(str) ==
    Len(str) >= 1 /\ \A k \in 1..Len(str) : IndexOf(Digits, SubSeq(str, k, k)) # 0

\* `let aliases = []`: an Array object with its own string-keyed properties.
\* aliases[key] = value on an Array: "length" converts the value to a number
\* and throws RangeError unless it is an array length; "__proto__" is the
\* inherited accessor, which ignores a string; any other (non-index) key
\* becomes an own property.
EmptyArray == [err |-> "", own |-> [k \in {} |-> ""]]

ArraySet(arr, key, value) ==
    IF arr.err # "" THEN arr
    ELSE IF key = "length"
         THEN IF IsDigits(value) THEN arr
              ELSE [arr EXCEPT !.err = "RangeError: Invalid array length"]
    ELSE IF key = "__proto__" THEN arr
    ELSE [arr EXCEPT !.own =
             [k \in (DOMAIN arr.own) \cup {key} |-> IF k = key THEN value ELSE arr.own[k]]]

\* the retain test of the loop over Object.entries(allAliases)
Retains(svgFilesList, key, value) == Includes(svgFilesList, value)

RECURSIVE AliasLoop(_, _, _)
AliasLoop(entries, svgFilesList, aliases) ==
    IF entries = <<>> THEN aliases
    ELSE AliasLoop(Tail(entries), svgFilesList,
                   IF Retains(svgFilesList, Head(entries).key, Head(entries).value)
                   THEN ArraySet(aliases, Head(entries).key, Head(entries).value)
                   ELSE aliases)

readAliases(entries, listing, limit, parse) ==
    LET svgs == readSvgs(listing, limit, parse)
    IN  IF svgs.kind = "throw" THEN svgs
        ELSE LET svgFilesList == [k \in 1..Len(svgs.icons) |-> svgs.icons[k].name]
                 aliases == AliasLoop(entries, svgFilesList, EmptyArray)
             IN  IF aliases.err # "" THEN [kind |-> "throw", message |-> aliases.err]
                 ELSE [kind |-> "return", aliases |-> aliases.own]

\* Inputs: directory listings hold distinct names, JSON objects distinct keys
FileNames == {"home.svg", "user.svg", "2.svg", "notes.txt", ".svg"}

DistinctSeqs(S, n) ==
    {q \in SeqsUpTo(S, n) : \A a, b \in 1..Len(q) : a # b => q[a] # q[b]}

AliasKeys == {"dashboard", "x", "length", "__proto__"}
AliasTargets == {"home", "user", "missing", "2"}

AliasEntries ==
    {q \in SeqsUpTo([key : AliasKeys, value : AliasTargets], MaxAliases) :
        \A a, b \in 1..Len(q) : a # b => q[a].key # q[b].key}

InitAliases ==
    /\ dirListing \in DistinctSeqs(FileNames, MaxDir)
    /\ iconsLimit \in {Infinity} \cup {Limit(n) : n \in -1..MaxLimit}
    /\ svgsParse \in BOOLEAN
    /\ allAliases \in AliasEntries
    /\ aliasResult = NotCalled
    /\ PreviewIdle /\ OptionsIdle /\ AsyncIdle /\ ChangelogIdle /\ CaseIdle

otherThanAliases == <<previewVars, optionsVars, asyncVars, changelogVars, caseVars>>

\* a call of readAliases()
ReadAliases ==
    /\ aliasResult = NotCalled
    /\ aliasResult' = readAliases(allAliases, dirListing, iconsLimit, svgsParse)
    /\ UNCHANGED <<dirListing, iconsLimit, svgsParse, allAliases>>
    /\ UNCHANGED otherThanAliases

NextAliases == ReadAliases

SpecAliases == InitAliases /\ [][NextAliases]_vars

\* the names of the icons readSvgs returns for the directory
LoadedNames ==
    LET svgs == readSvgs(dirListing, iconsLimit, svgsParse)
    IN  {svgs.icons[k].name : k \in 1..Len(svgs.icons)}

\* C4: readAliases returns exactly the entries of aliases.json whose
\* canonical name is the name of an icon returned by readSvgs: each of them
\* with its value unchanged, and no other entry.
C4_AliasesFiltered ==
    (aliasResult # NotCalled
        /\ readSvgs(dirListing, iconsLimit, svgsParse).kind = "return") =>
        /\ aliasResult.kind = "return"
        /\ \A k \in 1..Len(allAliases) :
               IF allAliases[k].value \in LoadedNames
               THEN /\ allAliases[k].key \in DOMAIN aliasResult.aliases
                    /\ aliasResult.aliases[allAliases[k].key] = allAliases[k].value
               ELSE allAliases[k].key \notin DOMAIN aliasResult.aliases
        /\ DOMAIN aliasResult.aliases \subseteq {allAliases[k].key : k \in 1..Len(allAliases)}

(***************************************************************************)
(* asyncForEach                                                            *)
(* array[k] says what the callback does for element k - 1: "value" returns *)
(* a plain value, "resolve" a promise that is fulfilled later, "reject" a  *)
(* promise that is rejected later, "throw" throws before returning.        *)
(***************************************************************************)
CallbackBehaviours == {"value", "resolve", "reject", "throw"}

\* where the loop stands once callback(array[index]) has been called:
\* `await` suspends the loop until the returned value settles
AfterCallMut(behaviour) == "loop"
AfterCall(behaviour) == IF behaviour = "throw" THEN "rejected" ELSE "await"

InitAsync ==
    /\ array \in SeqsUpTo(CallbackBehaviours, MaxArray)
    /\ index = 0
    /\ inFlight = {}
    /\ started = <<>>
    /\ asyncPc = "loop"
    /\ PreviewIdle /\ OptionsIdle /\ AliasIdle /\ ChangelogIdle /\ CaseIdle

otherThanAsync == <<previewVars, optionsVars, aliasVars, changelogVars, caseVars>>

\* index < array.length: callback(array[index], index, array) is called
CallCallback ==
    /\ asyncPc = "loop"
    /\ index < Len(array)
    /\ started' = Append(started, index)
    /\ asyncPc' = AfterCall(array[index + 1])
    /\ inFlight' = IF array[index + 1] = "throw" THEN inFlight ELSE inFlight \cup {index}
    /\ UNCHANGED <<array, index>>
    /\ UNCHANGED otherThanAsync

\* the awaited value is fulfilled: index++ and the loop goes on
AwaitFulfilled ==
    /\ asyncPc = "await"
    /\ array[index + 1] \in {"value", "resolve"}
    /\ inFlight' = inFlight \ {index}
    /\ index' = index + 1
    /\ asyncPc' = "loop"
    /\ UNCHANGED <<array, started>>
    /\ UNCHANGED otherThanAsync

\* the awaited promise is rejected: await throws, asyncForEach rejects
AwaitRejected ==
    /\ asyncPc = "await"
    /\ array[index + 1] = "reject"
    /\ inFlight' = inFlight \ {index}
    /\ asyncPc' = "rejected"
    /\ UNCHANGED <<array, index, started>>
    /\ UNCHANGED otherThanAsync

\* index = array.length: the loop ends and asyncForEach resolves
LoopEnds ==
    /\ asyncPc = "loop"
    /\ index = Len(array)
    /\ asyncPc' = "done"
    /\ UNCHANGED <<array, index, inFlight, started>>
    /\ UNCHANGED otherThanAsync

NextAsync ==
    \/ CallCallback
    \/ AwaitFulfilled
    \/ AwaitRejected
    \/ LoopEnds

SpecAsync == InitAsync /\ [][NextAsync]_vars

Fails(behaviour) == behaviour \in {"reject", "throw"}

\* C5: callbacks are started in index order 0..n-1, each only after the one
\* before it has completed, at most one is in flight at any time, and once a
\* callback has failed no later callback is started.
C5_StrictSequence ==
    /\ \A k \in 1..Len(started) : started[k] = k - 1
    /\ Cardinality(inFlight) <= 1
    /\ \A k \in 1..(Len(started) - 1) :
          /\ started[k] \notin inFlight
          /\ ~Fails(array[started[k] + 1])
    /\ asyncPc = "done" => (Len(started) = Len(array) /\ inFlight = {})
    /\ asyncPc = "rejected" =>
          (Len(started) >= 1 /\ Fails(array[Len(started)]) /\ inFlight = {})

\* the second callback was rejected while a third element was waiting
C5_Witness ==
    /\ Len(array) = 3
    /\ array[1] = "resolve"
    /\ array[2] = "reject"
    /\ asyncPc = "rejected"
    /\ started = <<0, 1>>

(***************************************************************************)
(* printChangelog: stdout.lines holds one string per console.log call      *)
(***************************************************************************)
\* the backtick of the template strings; the character cannot be written in
\* a string of this module, "^" stands for it
Backtick == "^"

Quoted(icon) == Backtick \o icon \o Backtick

\* the forEach that builds the compact line: names in backticks, a comma and a space after
\* every name but the last
RECURSIVE CompactList(_, _, _)
CompactList(icons, k, str) ==
    IF k > Len(icons) THEN str
    ELSE CompactList(icons, k + 1,
             str \o Quoted(icons[k]) \o (IF k <= Len(icons) - 1 THEN ", " ELSE ""))

BulletLines(icons) == [k \in 1..Len(icons) |-> "- " \o Quoted(icons[k])]

\* lines 275-298
PrintNewIcons(icons, itemized) ==
    IF Len(icons) > 0
    THEN (IF itemized
          THEN <<"### " \o DigitToString(Len(icons)) \o " new icons:\n">>
                   \o BulletLines(icons)
          ELSE <<CompactList(icons, 1, DigitToString(Len(icons)) \o " new icons: ")>>)
             \o <<"">>
    ELSE <<>>

\* lines 300-314: the pretty flag is not consulted
PrintModifiedIcons(icons, itemized) ==
    IF Len(icons) > 0
    THEN <<CompactList(icons, 1, "Fixed icons: "), "">>
    ELSE <<>>

\* lines 316-322
PrintRenamedIcons(pairs) ==
    IF Len(pairs) > 0
    THEN <<"Renamed icons: ">>
             \o [k \in 1..Len(pairs) |->
                    "- " \o Quoted(pairs[k][1]) \o " renamed to " \o Quoted(pairs[k][2])]
    ELSE <<>>

printChangelog(new, modified, renamed, itemized) ==
    PrintNewIcons(new, itemized)
        \o PrintModifiedIcons(modified, itemized)
        \o PrintRenamedIcons(renamed)

ChangedNames == {"a", "b-c"}

InitChangelog ==
    /\ newIcons \in SeqsUpTo(ChangedNames, MaxNames)
    /\ modifiedIcons \in SeqsUpTo(ChangedNames, MaxNames)
    /\ renamedIcons \in SeqsUpTo(ChangedNames \X ChangedNames, MaxRenamed)
    /\ pretty \in BOOLEAN
    /\ stdout = NothingPrinted
    /\ PreviewIdle /\ OptionsIdle /\ AliasIdle /\ AsyncIdle /\ CaseIdle

otherThanChangelog == <<previewVars, optionsVars, aliasVars, asyncVars, caseVars>>

\* a call of printChangelog(newIcons, modifiedIcons, renamedIcons, pretty)
PrintChangelog ==
    /\ ~stdout.called
    /\ stdout' = [called |-> TRUE,
                  lines |-> printChangelog(newIcons, modifiedIcons, renamedIcons, pretty)]
    /\ UNCHANGED <<newIcons, modifiedIcons, renamedIcons, pretty>>
    /\ UNCHANGED otherThanChangelog

NextChangelog == PrintChangelog

SpecChangelog == InitChangelog /\ [][NextChangelog]_vars

Printed == stdout.called

CountLines(line) == Cardinality({k \in 1..Len(stdout.lines) : stdout.lines[k] = line})

CountIn(elems, e) == Cardinality({k \in 1..Len(elems) : elems[k] = e})

\* quoted names with a comma and a space between them
RECURSIVE JoinQuoted(_)
JoinQuoted(icons) ==
    IF icons = <<>> THEN ""
    ELSE IF Len(icons) = 1 THEN "^" \o icons[1] \o "^"
    ELSE "^" \o icons[1] \o "^, " \o JoinQuoted(Tail(icons))

HasBulletPerName(icons) ==
    \A k \in 1..Len(icons) :
        CountLines("- ^" \o icons[k] \o "^") >= CountIn(icons, icons[k])

HasOneCompactLine(icons) ==
    icons # <<>> =>
        Cardinality({k \in 1..Len(stdout.lines) :
                        EndsWith(stdout.lines[k], " " \o JoinQuoted(icons))}) >= 1

\* C7: in itemized mode every name of the new list and of the modified list
\* is printed as its own bullet line; in compact mode each non-empty name
\* list is printed as one line of backtick-quoted names separated by a comma and a space
\* with no trailing separator; every renamed pair is printed as exactly one
\* bullet line in both modes.
C7_ModeHonoured ==
    Printed =>
        /\ pretty => (HasBulletPerName(newIcons) /\ HasBulletPerName(modifiedIcons))
        /\ ~pretty => (HasOneCompactLine(newIcons) /\ HasOneCompactLine(modifiedIcons))
        /\ \A k \in 1..Len(renamedIcons) :
               CountLines("- ^" \o renamedIcons[k][1] \o "^ renamed to ^"
                              \o renamedIcons[k][2] \o "^")
                   = CountIn(renamedIcons, renamedIcons[k])

(***************************************************************************)
(* toCamelCase, toPascalCase                                               *)
(* The pattern of toCamelCase has two alternatives: an upper-case letter   *)
(* at the very start of the string, or a run of separators (white space,   *)
(* "-", "_") followed by one word character (letter, digit or "_").        *)
(***************************************************************************)
IsUpperLetter(c) == c # "" /\ IndexOf(UpperLetters, c) # 0

IsSeparator(c) == c \in {" ", "-", "_"}

IsWordChar(c) ==
    c # "" /\ (IndexOf(LowerLetters, c) # 0 \/ IndexOf(UpperLetters, c) # 0
                 \/ IndexOf(Digits, c) # 0 \/ c = "_")

\* the length of the run of separators that starts at position p
RECURSIVE SeparatorRun(_, _)
SeparatorRun(str, p) ==
    IF IsSeparator(CharAt(str, p)) THEN 1 + SeparatorRun(str, p + 1) ELSE 0

\* the second alternative at position p: the run is greedy and gives back
\* separators until a word character follows it; 0 when there is no match,
\* else the number of separators the match takes
SeparatorMatch(str, p) ==
    LET run == SeparatorRun(str, p)
        takes == {m \in 1..run : IsWordChar(CharAt(str, p + m))}
    IN  IF takes = {} THEN 0 ELSE CHOOSE m \in takes : \A n \in takes : m >= n

\* string.replace(pattern, (match, p1, p2) => p2 ? p2.toUpperCase() : p1.toLowerCase())
\* with the g flag, scanning from position p
RECURSIVE CamelFrom(_, _)
CamelFrom(str, p) ==
    IF p > Len(str) THEN ""
    ELSE IF p = 1 /\ IsUpperLetter(CharAt(str, 1))
         THEN ToLowerChar(CharAt(str, 1)) \o CamelFrom(str, 2)
    ELSE IF SeparatorMatch(str, p) > 0
         THEN ToUpperChar(CharAt(str, p + SeparatorMatch(str, p)))
                  \o CamelFrom(str, p + SeparatorMatch(str, p) + 1)
    ELSE CharAt(str, p) \o CamelFrom(str, p + 1)

toCamelCase(str) == CamelFrom(str, 1)

toPascalCase(str) ==
    LET camelCase == toCamelCase(str)
    IN  ToUpperChar(CharAt(camelCase, 1)) \o Slice(camelCase, 2, Len(camelCase))

Alphabet == {"a", "b", "C", "1", "-", "_", " "}

RECURSIVE StringsOfLen(_)
StringsOfLen(n) ==
    IF n = 0 THEN {""}
    ELSE {str \o c : str \in StringsOfLen(n - 1), c \in Alphabet}

InputStrings == UNION {StringsOfLen(n) : n \in 0..MaxLen}

InitCase ==
    /\ string \in InputStrings
    /\ pascal = NotCalled
    /\ PreviewIdle /\ OptionsIdle /\ AliasIdle /\ AsyncIdle /\ ChangelogIdle

otherThanCase == <<previewVars, optionsVars, aliasVars, asyncVars, changelogVars>>

\* a call of toPascalCase(string)
ToPascalCase ==
    /\ pascal = NotCalled
    /\ pascal' = [kind |-> "return", value |-> toPascalCase(string)]
    /\ UNCHANGED string
    /\ UNCHANGED otherThanCase

NextCase == ToPascalCase

SpecCase == InitCase /\ [][NextCase]_vars

\* the tokens of a string split on white space, "-" and "_", each with its
\* first character upper-cased and the rest lower-cased, concatenated
RECURSIVE PascalOfTokens(_, _, _)
PascalOfTokens(str, p, atTokenStart) ==
    IF p > Len(str) THEN ""
    ELSE IF CharAt(str, p) \in {" ", "-", "_"}
         THEN PascalOfTokens(str, p + 1, TRUE)
    ELSE (IF atTokenStart THEN ToUpperChar(CharAt(str, p)) ELSE ToLowerChar(CharAt(str, p)))
             \o PascalOfTokens(str, p + 1, FALSE)

\* C8: toPascalCase returns the concatenation of the tokens of its input
\* (split on white space, hyphen and underscore), each token with its first
\* letter upper-cased and the rest lower-cased, and leaves no separator.
C8_PascalOfTokens ==
    pascal # NotCalled =>
        /\ pascal.value = PascalOfTokens(string, 1, TRUE)
        /\ \A k \in 1..Len(pascal.value) :
               SubSeq(pascal.value, k, k) \notin {" ", "-", "_"}

====
